---- MODULE Spec2Model ----
(***************************************************************************)
(* The Urban Heat Island dashboard of src/app.py as a state machine.       *)
(*                                                                         *)
(* One run of the script is one action: merge the cached tables, apply the *)
(* slider multipliers in normalized space, score the adjusted rows, round, *)
(* clip, colour the map, build the ranked table and the summary metrics.   *)
(*                                                                         *)
(* Numbers.  A float is modelled as a pair <<n, d>>: the rational n/d in   *)
(* lowest terms when d > 0, and the IEEE specials when d = 0 (<<0,0>> is   *)
(* NaN, <<1,0>> is +inf, <<-1,0>> is -inf).  Arithmetic on finite values   *)
(* is exact: the model does not represent binary rounding error, and it    *)
(* does not distinguish -0.0 from 0.0.                                     *)
(***************************************************************************)
EXTENDS Integers, Sequences, FiniteSets, TLC

VARIABLES
    cdo_gdf,        \* cached geometry table (load_data), a sequence of rows
    features_df,    \* cached feature table (load_data), a sequence of rows
    info_df,        \* cached bounds table (load_data): feature -> [min, max]
    model,          \* cached scoring artifact (load_model)
    mult,           \* the seven slider values, feature -> multiplier
    sim_data,       \* merged rows of the current run
    sim_scaled,     \* adjusted copy of sim_data of the current run
    raw,            \* model.predict output of the current run, before .round(3)
    UHI_index,      \* column sim_data['UHI_index']
    UHI_vis,        \* column sim_data['UHI_vis']
    fillColor,      \* style_function's fillColor per row of sim_data
    display_df,     \* the ranked, formatted table
    styled_table,   \* color_uhi_values's style per row of display_df
    metrics,        \* avg_uhi, hottest_barangay, coolest_barangay
    status,         \* how the run ended: "ok" or the exception that stopped it
    session0,       \* the tables as first loaded, and the first run's output
    slider_moved    \* whether a slider has been moved since the session began

vars == <<cdo_gdf, features_df, info_df, model, mult, sim_data, sim_scaled, raw,
          UHI_index, UHI_vis, fillColor, display_df, styled_table, metrics,
          status, session0, slider_moved>>

(***************************************************************************)
(* Bounds of the exploration.                                              *)
(***************************************************************************)
\* the sliders are tried at SliderStops + 1 evenly spread positions (and 1.0)
SliderStops == 2
\* at most this many sliders are away from 1.0 at the same time
MaxMoved == 1
\* raw scores are tried at each bin edge and up to this many quarter-thousandths
\* below it
EdgeSpread == 2

(***************************************************************************)
(* Float arithmetic.                                                       *)
(***************************************************************************)
Abs(x) == IF x < 0 THEN -x ELSE x

Sign(x) == IF x < 0 THEN -1 ELSE IF x > 0 THEN 1 ELSE 0

GCD[a \in Nat, b \in Nat] == IF b = 0 THEN a ELSE GCD[b, a % b]

\* the float n/d; d = 0 gives the IEEE result of dividing n by zero
Norm[n \in Int, d \in Int] ==
    IF d = 0 THEN <<Sign(n), 0>>
    ELSE LET g == GCD[Abs(n), Abs(d)]
             s == IF d < 0 THEN -1 ELSE 1
         IN  <<(s * n) \div g, (s * d) \div g>>

\* the values a float may take
Float == Int \X Int

NaN == <<0, 0>>

FromInt(i) == <<i, 1>>

\* a decimal literal written in thousandths (0.625 is Dec(625))
Dec(n) == Norm[n, 1000]

IsNaN(x) == x = NaN

IsFinite(x) == x[2] > 0

FNeg[x \in Float] == <<-x[1], x[2]>>

FAdd[x \in Float, y \in Float] ==
    IF IsNaN(x) \/ IsNaN(y) THEN NaN
    ELSE IF ~IsFinite(x) /\ ~IsFinite(y) THEN (IF x = y THEN x ELSE NaN)
    ELSE IF ~IsFinite(x) THEN x
    ELSE IF ~IsFinite(y) THEN y
    ELSE Norm[x[1] * y[2] + y[1] * x[2], x[2] * y[2]]

FSub[x \in Float, y \in Float] == FAdd[x, FNeg[y]]

FMul[x \in Float, y \in Float] ==
    IF IsNaN(x) \/ IsNaN(y) THEN NaN
    ELSE IF ~IsFinite(x) \/ ~IsFinite(y) THEN <<Sign(x[1]) * Sign(y[1]), 0>>
    ELSE Norm[x[1] * y[1], x[2] * y[2]]

FDiv[x \in Float, y \in Float] ==
    IF IsNaN(x) \/ IsNaN(y) THEN NaN
    ELSE IF ~IsFinite(x) /\ ~IsFinite(y) THEN NaN
    ELSE IF ~IsFinite(x) THEN <<x[1] * (IF y[1] < 0 THEN -1 ELSE 1), 0>>
    ELSE IF ~IsFinite(y) THEN FromInt(0)
    ELSE Norm[x[1] * y[2], x[2] * y[1]]

\* x < y as Python compares floats: False whenever a NaN is involved
FLt[x \in Float, y \in Float] ==
    IF IsNaN(x) \/ IsNaN(y) THEN FALSE
    ELSE IF ~IsFinite(x) /\ ~IsFinite(y) THEN x[1] < y[1]
    ELSE IF ~IsFinite(x) THEN x[1] < 0
    ELSE IF ~IsFinite(y) THEN y[1] > 0
    ELSE x[1] * y[2] < y[1] * x[2]

FLe[x \in Float, y \in Float] == FLt[x, y] \/ (~IsNaN(x) /\ x = y)

\* the integer nearest to n/d (d > 0), ties to the even one
Rint[n \in Int, d \in Int] ==
    LET q == n \div d
        r == n - q * d
    IN  IF 2 * r < d THEN q
        ELSE IF 2 * r > d THEN q + 1
        ELSE IF q % 2 = 0 THEN q ELSE q + 1

\* ndarray.round(3): round half to even on the thousandths, specials unchanged
round3[x \in Float] == IF IsFinite(x) THEN Norm[Rint[x[1] * 1000, x[2]], 1000] ELSE x

(***************************************************************************)
(* The visualization range and the colour scale.                           *)
(***************************************************************************)
vmin == 0

vmax == 5

\* a clip that forgets the upper bound, as Series.clip(lower=vmin) would
clip_lower_only(x, lower, upper) ==
    IF IsNaN(x) THEN x
    ELSE IF FLt[x, FromInt(lower)] THEN FromInt(lower)
    ELSE x

\* Series.clip(lower, upper): NaN stays NaN
clip(x, lower, upper) ==
    IF IsNaN(x) THEN x
    ELSE IF FLt[x, FromInt(lower)] THEN FromInt(lower)
    ELSE IF FLt[FromInt(upper), x] THEN FromInt(upper)
    ELSE x

bins == <<Dec(0), Dec(625), Dec(1250), Dec(1875), Dec(2500), Dec(3125),
          Dec(3750), Dec(4375), Dec(5000)>>

colors == <<"#ffffff", "#ffffd9", "#fff5b8", "#ffde82", "#ffc04d", "#ff9a2e",
            "#ff6b39", "#cc0000">>

\* the for loop over enumerate(bins[1:]), from i (counted from 0 as enumerate
\* does: the edge bins[1:][i] is bins[i + 2] here, colors[i] is colors[i + 1])
ScanBins[value \in Float, i \in Nat] ==
    IF i > Len(bins) - 2 THEN colors[Len(colors)]
    ELSE IF FLt[value, bins[i + 2]] THEN colors[i + 1]
    ELSE ScanBins[value, i + 1]

\* get_color with the test written `value <= b`
get_color_inclusive(value) ==
    LET hit == {i \in 0..(Len(bins) - 2) : FLe[value, bins[i + 2]]}
    IN  IF hit = {} THEN colors[Len(colors)]
        ELSE colors[(CHOOSE i \in hit : \A j \in hit : i <= j) + 1]

\* get_color with the loop written over enumerate(bins), the first edge not skipped
get_color_all_edges(value) ==
    LET hit == {i \in 1..(Len(bins) - 1) : FLt[value, bins[i + 1]]}
    IN  IF FLt[value, bins[1]] THEN colors[1]
        ELSE IF hit = {} THEN colors[Len(colors)]
        ELSE LET i == CHOOSE i \in hit : \A j \in hit : i <= j
             IN  colors[IF i + 1 > Len(colors) THEN Len(colors) ELSE i + 1]

get_color(value) == ScanBins[value, 0]

(***************************************************************************)
(* The loaded tables.  A barangay name is the sequence of its words.       *)
(***************************************************************************)
model_features == <<"NDBI", "nighttime_lights", "omega_500", "cooling_capacity",
                    "canyon_effect", "microclimate_mod", "dtr_proxy">>

FeatureSet == {model_features[i] : i \in 1..Len(model_features)}

FeatureRow(name, ndbi, nlights, omega, cooling, canyon, micro, dtr) ==
    [barangay |-> name,
     feat |-> [NDBI |-> ndbi, nighttime_lights |-> nlights, omega_500 |-> omega,
               cooling_capacity |-> cooling, canyon_effect |-> canyon,
               microclimate_mod |-> micro, dtr_proxy |-> dtr]]

\* cdo_geodata.parquet: one row per barangay boundary
GeoTables ==
    {<<[barangay |-> <<"Barangay", "1">>, geometry |-> "polygon1"],
       [barangay |-> <<"Carmen">>, geometry |-> "polygon2"]>>}

\* latest_data.csv: the keys match the geometries, or one key on each side does not
FeaturesMatched ==
    <<FeatureRow(<<"Barangay", "1">>, Dec(500), FromInt(45), FromInt(1),
                 FromInt(2), FromInt(3), FromInt(1), FromInt(10)),
      FeatureRow(<<"Carmen">>, Dec(-250), FromInt(12), FromInt(-1),
                 FromInt(7), FromInt(1), FromInt(0), FromInt(6))>>

FeaturesUnmatched ==
    <<FeatureRow(<<"Barangay", "1">>, Dec(500), FromInt(45), FromInt(1),
                 FromInt(2), FromInt(3), FromInt(1), FromInt(10)),
      FeatureRow(<<"Gusa">>, Dec(250), FromInt(30), FromInt(0),
                 FromInt(5), FromInt(2), FromInt(1), FromInt(8))>>

FeatureTables == {FeaturesMatched, FeaturesUnmatched}

Bounds(lo, hi) == [min |-> lo, max |-> hi]

\* info.csv: per-feature min and max; in the second table omega_500 has max = min
InfoRegular ==
    [NDBI |-> Bounds(FromInt(-1), FromInt(1)),
     nighttime_lights |-> Bounds(FromInt(0), FromInt(60)),
     omega_500 |-> Bounds(FromInt(-2), FromInt(2)),
     cooling_capacity |-> Bounds(FromInt(0), FromInt(10)),
     canyon_effect |-> Bounds(FromInt(0), FromInt(4)),
     microclimate_mod |-> Bounds(FromInt(-1), FromInt(3)),
     dtr_proxy |-> Bounds(FromInt(4), FromInt(12))]

InfoDegenerate == [InfoRegular EXCEPT !.omega_500 = Bounds(FromInt(1), FromInt(1))]

InfoTables == {InfoRegular, InfoDegenerate}

\* model.joblib is opaque: a fitted regressor stands in for it, linear in the
\* seven features, which either rejects non-finite input (ValueError) or treats
\* it as a missing value
ModelStrict ==
    [w |-> [NDBI |-> FromInt(2), nighttime_lights |-> Norm[1, 20],
            omega_500 |-> Norm[1, 2], cooling_capacity |-> Norm[-1, 4],
            canyon_effect |-> Norm[1, 2], microclimate_mod |-> Norm[1, 4],
            dtr_proxy |-> Norm[1, 4]],
     b |-> Dec(-2600), nan |-> "raise"]

ModelTolerant ==
    [w |-> [NDBI |-> FromInt(1), nighttime_lights |-> Norm[1, 25],
            omega_500 |-> Norm[1, 4], cooling_capacity |-> Norm[-1, 2],
            canyon_effect |-> Norm[1, 4], microclimate_mod |-> Norm[1, 8],
            dtr_proxy |-> Norm[1, 8]],
     b |-> Dec(1375), nan |-> "missing"]

Models == {ModelStrict, ModelTolerant}

(***************************************************************************)
(* The sliders.                                                            *)
(***************************************************************************)
multiplier_min == Norm[1, 10]

multiplier_max == FromInt(2)

multiplier_default == FromInt(1)

multiplier_step == Norm[1, 20]

\* the number of steps from multiplier_min to multiplier_max
SliderSteps == FDiv[FSub[multiplier_max, multiplier_min], multiplier_step][1]

\* the value st.slider returns at step i
SliderValue(i) == FAdd[multiplier_min, FMul[FromInt(i), multiplier_step]]

\* the slider values the exploration tries
SliderChoices ==
    {SliderValue((i * SliderSteps) \div SliderStops) : i \in 0..SliderStops}
        \cup {multiplier_default}

(***************************************************************************)
(* One run of the script, step by step.                                    *)
(***************************************************************************)
RECURSIVE Concat(_)
Concat(ss) == IF ss = <<>> THEN <<>> ELSE Head(ss) \o Concat(Tail(ss))

\* DataFrame.merge(on='barangay'), an inner join: a row per matching pair, in the
\* order of the left table; a key with no match on the other side gives no row
merge(left, right) ==
    Concat([i \in DOMAIN left |->
        LET matches == SelectSeq(right, LAMBDA r : r.barangay = left[i].barangay)
        IN  [j \in DOMAIN matches |->
                [barangay |-> left[i].barangay, geometry |-> left[i].geometry,
                 feat |-> matches[j].feat]]])

\* str.replace(r'\bBarangay\b', 'Brgy', regex=True)
RenameBarangay(name) ==
    [i \in DOMAIN name |-> IF name[i] = "Barangay" THEN "Brgy" ELSE name[i]]

MergeFeatures(cdo, features) ==
    LET merged == merge(cdo, features)
    IN  [i \in DOMAIN merged |->
            [merged[i] EXCEPT !.barangay = RenameBarangay(merged[i].barangay)]]

Normalize(x, lo, hi) == FDiv[FSub[x, lo], FSub[hi, lo]]

\* a de-normalization that forgets to add the minimum back
DenormalizeNoOffset(norm, lo, hi) == FMul[norm, FSub[hi, lo]]

Denormalize(norm, lo, hi) == FAdd[FMul[norm, FSub[hi, lo]], lo]

\* one feature of one row: the *_norm column, times the multiplier, taken back
AdjustValue(x, b, m) == Denormalize(FMul[Normalize(x, b.min, b.max), m], b.min, b.max)

\* sim_scaled: a copy of sim_data with every model feature adjusted (the *_norm
\* columns it also gets are read by nothing and are left out)
ApplyMultipliers(sd, info, m) ==
    [i \in DOMAIN sd |-> LET row == sd[i] IN
        [row EXCEPT !.feat =
            [NDBI |-> AdjustValue(row.feat.NDBI, info.NDBI, m.NDBI),
             nighttime_lights |-> AdjustValue(row.feat.nighttime_lights,
                                              info.nighttime_lights, m.nighttime_lights),
             omega_500 |-> AdjustValue(row.feat.omega_500, info.omega_500, m.omega_500),
             cooling_capacity |-> AdjustValue(row.feat.cooling_capacity,
                                              info.cooling_capacity, m.cooling_capacity),
             canyon_effect |-> AdjustValue(row.feat.canyon_effect, info.canyon_effect,
                                           m.canyon_effect),
             microclimate_mod |-> AdjustValue(row.feat.microclimate_mod,
                                              info.microclimate_mod, m.microclimate_mod),
             dtr_proxy |-> AdjustValue(row.feat.dtr_proxy, info.dtr_proxy, m.dtr_proxy)]]]

\* sim_scaled[model_features]: the seven columns, in the model's order
ModelInput(ss) ==
    [i \in DOMAIN ss |-> [k \in DOMAIN model_features |-> ss[i].feat[model_features[k]]]]

\* the stand-in regressor on one row: a non-finite feature counts as missing
RECURSIVE Dot(_, _, _)
Dot(w, x, k) ==
    IF k = 0 THEN FromInt(0)
    ELSE FAdd[Dot(w, x, k - 1),
              IF IsFinite(x[k]) THEN FMul[w[model_features[k]], x[k]] ELSE FromInt(0)]

\* model.predict: [ok, out]; ok is FALSE when the regressor raises
predict(mdl, X) ==
    IF mdl.nan = "raise" /\ \E i \in 1..Len(X) : \E k \in 1..Len(X[i]) : ~IsFinite(X[i][k])
    THEN [ok |-> FALSE, out |-> <<>>]
    ELSE [ok |-> TRUE,
          out |-> [i \in DOMAIN X |-> FAdd[mdl.b, Dot(mdl.w, X[i], Len(X[i]))]]]

(***************************************************************************)
(* Rendering: the map fill, the ranked table, the summary metrics.         *)
(***************************************************************************)
style_function(value) ==
    [fillColor |-> get_color(value), fillOpacity |-> Dec(750), color |-> "black",
     weight |-> FromInt(1), opacity |-> Dec(900)]

\* branca's LinearColormap(colors, vmin, vmax) at x: the colours sit at evenly
\* spaced anchors of [vmin, vmax] and the legend blends the two neighbours of x
\* linearly; [lo, hi, p] is the blend (1 - p) * lo + p * hi
colormap(x) ==
    LET n == Len(colors)
        index == [k \in 1..n |->
                     FAdd[FromInt(vmin), Norm[(k - 1) * (vmax - vmin), n - 1]]]
        i == Cardinality({k \in 1..n : FLt[index[k], x]})
    IN  IF FLe[x, index[1]] THEN [lo |-> colors[1], hi |-> colors[1], p |-> FromInt(0)]
        ELSE IF FLe[index[n], x] THEN [lo |-> colors[n], hi |-> colors[n], p |-> FromInt(0)]
        ELSE [lo |-> colors[i], hi |-> colors[i + 1],
              p |-> FDiv[FSub[x, index[i]], FSub[index[i + 1], index[i]]]]

\* the format f"{x:.2f}": two decimals instead of three
FormatF2(x) ==
    IF IsNaN(x) THEN [kind |-> "nan", neg |-> FALSE, whole |-> 0, frac |-> 0]
    ELSE IF ~IsFinite(x) THEN [kind |-> "inf", neg |-> x[1] < 0, whole |-> 0, frac |-> 0]
    ELSE LET t == Abs(Rint[x[1] * 100, x[2]])
         IN  [kind |-> "num", neg |-> x[1] < 0, whole |-> t \div 100,
              frac |-> (t % 100) * 10]

\* f"{x:.3f}": sign, whole part and three decimals, or nan / inf
FormatF3(x) ==
    IF IsNaN(x) THEN [kind |-> "nan", neg |-> FALSE, whole |-> 0, frac |-> 0]
    ELSE IF ~IsFinite(x) THEN [kind |-> "inf", neg |-> x[1] < 0, whole |-> 0, frac |-> 0]
    ELSE LET t == Abs(Rint[x[1] * 1000, x[2]])
         IN  [kind |-> "num", neg |-> x[1] < 0, whole |-> t \div 1000, frac |-> t % 1000]

FormattedFloat == [kind : {"num", "nan", "inf"}, neg : BOOLEAN, whole : Nat, frac : Nat]

\* float(val) of such a string
ParseFloat[s \in FormattedFloat] ==
    IF s.kind = "nan" THEN NaN
    ELSE IF s.kind = "inf" THEN <<IF s.neg THEN -1 ELSE 1, 0>>
    ELSE Norm[(IF s.neg THEN -1 ELSE 1) * (s.whole * 1000 + s.frac), 1000]

dark_colors == {"#ff6b39", "#cc0000"}

\* the style of a cell of background color
CellStyle(color) ==
    [background_color |-> color,
     color |-> IF color \in dark_colors THEN "white" ELSE "black",
     font_weight |-> "bold"]

\* val is always a string here, and float(val) never raises on what f"{x:.3f}" gives
color_uhi_values(val) == CellStyle(get_color(ParseFloat[val]))

\* sort_values(by='UHI_index', ascending=False): the row orders it may give; rows
\* with equal values come in either order, NaN rows come last
RankOrders(idx) ==
    LET n == Len(idx)
    IN  {o \in [1..n -> 1..n] :
            /\ \A a, b \in 1..n : a # b => o[a] # o[b]
            /\ \A a, b \in 1..n : a < b =>
                  /\ IsNaN(idx[o[a]]) => IsNaN(idx[o[b]])
                  /\ ~FLt[idx[o[a]], idx[o[b]]]}

RECURSIVE SumTo(_, _)
SumTo(xs, k) == IF k = 0 THEN FromInt(0) ELSE FAdd[SumTo(xs, k - 1), xs[k]]

\* Series.mean()
Mean(xs) == FDiv[SumTo(xs, Len(xs)), FromInt(Len(xs))]

\* Series.idxmax(): the first row holding the largest value
idxmax(xs) ==
    CHOOSE i \in 1..Len(xs) :
        /\ \A j \in 1..Len(xs) : ~FLt[xs[i], xs[j]]
        /\ \A j \in 1..(i - 1) : FLt[xs[j], xs[i]]

\* Series.idxmin(): the first row holding the smallest value
idxmin(xs) ==
    CHOOSE i \in 1..Len(xs) :
        /\ \A j \in 1..Len(xs) : ~FLt[xs[j], xs[i]]
        /\ \A j \in 1..(i - 1) : FLt[xs[i], xs[j]]

\* everything the script derives from the model's output
Rendered(sd, out, order) ==
    LET idx == [i \in DOMAIN out |-> round3[out[i]]]
        vis == [i \in DOMAIN idx |-> clip(idx[i], vmin, vmax)]
        all_barangays == [k \in DOMAIN order |->
                             [barangay |-> sd[order[k]].barangay,
                              UHI_index |-> idx[order[k]]]]
        shown == [k \in DOMAIN all_barangays |->
                     [Barangay |-> all_barangays[k].barangay,
                      UHI_Index |-> FormatF3(all_barangays[k].UHI_index)]]
    IN  [raw |-> out,
         UHI_index |-> idx,
         UHI_vis |-> vis,
         fillColor |-> [i \in DOMAIN vis |-> style_function(vis[i]).fillColor],
         display_df |-> shown,
         styled_table |-> [k \in DOMAIN shown |-> color_uhi_values(shown[k].UHI_Index)],
         metrics |-> [avg_uhi |-> round3[Mean(idx)],
                      hottest_barangay |-> sd[idxmax(idx)].barangay,
                      hottest_UHI_index |-> idx[idxmax(idx)],
                      coolest_barangay |-> sd[idxmin(idx)].barangay,
                      coolest_UHI_index |-> idx[idxmin(idx)]]]

\* what is left when model.predict raises: the script stops at that line
Aborted ==
    [raw |-> <<>>, UHI_index |-> <<>>, UHI_vis |-> <<>>, fillColor |-> <<>>,
     display_df |-> <<>>, styled_table |-> <<>>,
     metrics |-> [avg_uhi |-> NaN, hottest_barangay |-> <<>>, hottest_UHI_index |-> NaN,
                  coolest_barangay |-> <<>>, coolest_UHI_index |-> NaN]]

\* a run that adjusts the cached table itself (no merge copy, no .copy()): row i
\* of the cached table takes the adjusted features of row i
CacheAfterRunInPlace(features, scaled) ==
    [i \in 1..Len(features) |->
        IF i <= Len(scaled) THEN [features[i] EXCEPT !.feat = scaled[i].feat]
        ELSE features[i]]

\* the cached feature table after a run: the run writes only to the merge result
\* and to its copy, so load_data's objects are as they were
CacheAfterRun(features, scaled) == features

\* the outputs a later run is compared with
Outputs(ss, r) ==
    [sim_scaled |-> ss, UHI_index |-> r.UHI_index, UHI_vis |-> r.UHI_vis,
     fillColor |-> r.fillColor]

(***************************************************************************)
(* The state machine.                                                      *)
(***************************************************************************)
AllDefault == [f \in FeatureSet |-> multiplier_default]

\* what the run shows once model.predict has returned res: one rendering per row
\* order the sort may give, or nothing when it raised
Results(sd, res) ==
    IF res.ok
    THEN {Rendered(sd, res.out, o) :
             o \in RankOrders([i \in DOMAIN res.out |-> round3[res.out[i]]])}
    ELSE {Aborted}

RunStatus(res) == IF res.ok THEN "ok" ELSE "ValueError"

\* the first run of a session: everything is loaded and the sliders are at 1.0
Init ==
    /\ cdo_gdf \in GeoTables
    /\ features_df \in FeatureTables
    /\ info_df \in InfoTables
    /\ model \in Models
    /\ mult = AllDefault
    /\ \E sd \in {MergeFeatures(cdo_gdf, features_df)} :
       \E ss \in {ApplyMultipliers(sd, info_df, mult)} :
       \E res \in {predict(model, ModelInput(ss))} :
       \E r \in Results(sd, res) :
          /\ sim_data = sd
          /\ sim_scaled = ss
          /\ status = RunStatus(res)
          /\ raw = r.raw
          /\ UHI_index = r.UHI_index
          /\ UHI_vis = r.UHI_vis
          /\ fillColor = r.fillColor
          /\ display_df = r.display_df
          /\ styled_table = r.styled_table
          /\ metrics = r.metrics
          /\ session0 = [cdo_gdf |-> cdo_gdf, features_df |-> features_df,
                         info_df |-> info_df, out |-> Outputs(ss, r)]
          /\ slider_moved = FALSE

\* the script runs top to bottom with slider values m
Execute(m) ==
    \E sd \in {MergeFeatures(cdo_gdf, features_df)} :
    \E ss \in {ApplyMultipliers(sd, info_df, m)} :
    \E res \in {predict(model, ModelInput(ss))} :
    \E r \in Results(sd, res) :
        /\ mult' = m
        /\ sim_data' = sd
        /\ sim_scaled' = ss
        /\ status' = RunStatus(res)
        /\ raw' = r.raw
        /\ UHI_index' = r.UHI_index
        /\ UHI_vis' = r.UHI_vis
        /\ fillColor' = r.fillColor
        /\ display_df' = r.display_df
        /\ styled_table' = r.styled_table
        /\ metrics' = r.metrics
        /\ features_df' = CacheAfterRun(features_df, ss)
        /\ UNCHANGED <<cdo_gdf, info_df, model, session0>>

Moved(m) == {f \in FeatureSet : m[f] # multiplier_default}

\* the user moves one slider; Streamlit reruns the script
SetSlider(f, v) ==
    /\ v # mult[f]
    /\ Cardinality(Moved([mult EXCEPT ![f] = v])) <= MaxMoved
    /\ Execute([mult EXCEPT ![f] = v])
    /\ slider_moved' = TRUE

\* the script is rerun with the sliders as they are
Rerun == Execute(mult) /\ UNCHANGED slider_moved

Next ==
    \/ \E f \in FeatureSet : \E v \in SliderChoices : SetSlider(f, v)
    \/ Rerun

Spec == Init /\ [][Next]_vars

(***************************************************************************)
(* The visualization alone: the model is opaque, so any score may come     *)
(* out of it for a row; everything after model.predict is as in the script.*)
(***************************************************************************)
\* the scores tried: every bin edge, one bin width below the first and one above
\* the last edge, and the quarter-thousandths just below each of these (the
\* nearest rounds up to the edge, the next rounds down to the thousandth below)
RawValues ==
    {Norm[2500 * e + j, 4000] : e \in -1..Len(bins), j \in -EdgeSpread..0}

\* a run in which the model scores row i as p
Score(i, p) ==
    /\ status = "ok"
    /\ \E res \in {[ok |-> TRUE, out |-> [raw EXCEPT ![i] = p]]} :
       \E r \in Results(sim_data, res) :
              /\ raw' = r.raw
              /\ UHI_index' = r.UHI_index
              /\ UHI_vis' = r.UHI_vis
              /\ fillColor' = r.fillColor
              /\ display_df' = r.display_df
              /\ styled_table' = r.styled_table
              /\ metrics' = r.metrics
    /\ UNCHANGED <<cdo_gdf, features_df, info_df, model, mult, sim_data, sim_scaled,
                   status, session0, slider_moved>>

InitVis ==
    /\ Init
    /\ features_df = FeaturesMatched
    /\ info_df = InfoRegular
    /\ model = ModelStrict

NextVis == \E i \in 1..Len(raw) : \E p \in RawValues : Score(i, p)

SpecVis == InitVis /\ [][NextVis]_vars

(***************************************************************************)
(* Properties.                                                             *)
(***************************************************************************)
\* the rows of the current run's sim_data that have a prediction
Entities == DOMAIN UHI_index

\* the value shown in row k of the table, read back as color_uhi_values reads it
TableValue(k) == ParseFloat[display_df[k].UHI_Index]

\* the position of a colour in colors, counted from 0
ColorIndex(c) == CHOOSE i \in 0..(Len(colors) - 1) : colors[i + 1] = c

\* colors[i] for the least i in 0..7 with v < bins[i+1], the last colour if none
ColorOfLeastEdge(v) ==
    LET above == {i \in 0..(Len(colors) - 1) : FLt[v, bins[i + 2]]}
    IN  IF above = {} THEN colors[Len(colors)]
        ELSE colors[(CHOOSE i \in above : \A j \in above : i <= j) + 1]

\* the interior bin edges, as positions of bins (counted from 1)
InteriorEdges == 2..(Len(bins) - 1)

\* C1 as stated: a value equal to an interior bin edge e is given the colour of
\* the bin whose UPPER edge is e (bins[i+1] = e gives colors[i], counted from 0),
\* on the map and in the table
C1_EdgeTakesBinBelow ==
    /\ \A i \in DOMAIN UHI_vis : \A k \in InteriorEdges :
           UHI_vis[i] = bins[k] => fillColor[i] = colors[k - 1]
    /\ \A r \in DOMAIN display_df : \A k \in InteriorEdges :
           TableValue(r) = bins[k] => styled_table[r].background_color = colors[k - 1]

\* C1, as the code has it: a value equal to an interior bin edge e is given the
\* colour of the bin whose LOWER edge is e (bins[i] = e gives colors[i], counted
\* from 0), on the map and in the table; it never takes the colour of the bin
\* of which it is the upper edge
C1_EdgeTakesBinAbove ==
    /\ \A i \in DOMAIN UHI_vis : \A k \in InteriorEdges :
           UHI_vis[i] = bins[k] =>
               fillColor[i] = colors[k] /\ fillColor[i] # colors[k - 1]
    /\ \A r \in DOMAIN display_df : \A k \in InteriorEdges :
           TableValue(r) = bins[k] =>
               /\ styled_table[r].background_color = colors[k]
               /\ styled_table[r].background_color # colors[k - 1]

\* two rows sit on two different interior edges and are coloured
C1_Witness ==
    /\ status = "ok"
    /\ \E i, j \in DOMAIN UHI_vis : \E k, l \in InteriorEdges :
           /\ k # l
           /\ UHI_vis[i] = bins[k] /\ fillColor[i] = colors[k]
           /\ UHI_vis[j] = bins[l] /\ fillColor[j] = colors[l]

\* C2: get_color(v) is colors[i] for the least i in 0..7 with v < bins[i+1], and
\* the last colour when v >= 5, for every value coloured on the map (UHI_vis)
\* and in the table (the parsed cell); the five examples of the specification
\* hold; and the colour index never decreases when the value increases
C2_FirstEdgeAbove ==
    /\ \A i \in DOMAIN UHI_vis :
           /\ fillColor[i] = ColorOfLeastEdge(UHI_vis[i])
           /\ FLe[FromInt(5), UHI_vis[i]] => fillColor[i] = colors[8]
    /\ \A r \in DOMAIN display_df :
           /\ styled_table[r].background_color = ColorOfLeastEdge(TableValue(r))
           /\ FLe[FromInt(5), TableValue(r)] =>
                  styled_table[r].background_color = colors[8]
    /\ get_color(Dec(0)) = colors[1]
    /\ get_color(Dec(624)) = colors[1]
    /\ get_color(Dec(625)) = colors[2]
    /\ get_color(Dec(4374)) = colors[7]
    /\ get_color(Dec(5000)) = colors[8]
    /\ \A i, j \in DOMAIN UHI_vis :
           FLe[UHI_vis[i], UHI_vis[j]] =>
               ColorIndex(fillColor[i]) <= ColorIndex(fillColor[j])
    /\ \A r, q \in DOMAIN display_df :
           FLe[TableValue(r), TableValue(q)] =>
               ColorIndex(styled_table[r].background_color)
                   <= ColorIndex(styled_table[q].background_color)

\* one row lies strictly inside a middle bin, the other is above 5 in the table
C2_Witness ==
    /\ status = "ok"
    /\ \E i \in DOMAIN UHI_vis :
           /\ FLt[bins[5], UHI_vis[i]] /\ FLt[UHI_vis[i], bins[6]]
           /\ fillColor[i] = colors[5]
    /\ \E r \in DOMAIN display_df :
           /\ FLt[FromInt(5), TableValue(r)]
           /\ styled_table[r].background_color = colors[8]

\* C3: after every run, for every entity with predicted index p: UHI_vis = p
\* when 0 <= p <= 5, UHI_vis = 0 when p < 0, UHI_vis = 5 when p > 5, and so
\* 0 <= UHI_vis <= 5
C3_Clipping ==
    /\ Len(UHI_vis) = Len(UHI_index)
    /\ \A i \in Entities :
           LET p == UHI_index[i]
               v == UHI_vis[i]
           IN  /\ (FLe[FromInt(0), p] /\ FLe[p, FromInt(5)]) => v = p
               /\ FLt[p, FromInt(0)] => v = FromInt(0)
               /\ FLt[FromInt(5), p] => v = FromInt(5)
               /\ FLe[FromInt(0), v] /\ FLe[v, FromInt(5)]

\* after a slider change one entity is predicted below 0 and another above 5
C3_Witness ==
    /\ slider_moved
    /\ \E i, j \in Entities :
           /\ FLt[UHI_index[i], FromInt(0)] /\ UHI_vis[i] = FromInt(0)
           /\ FLt[FromInt(5), UHI_index[j]] /\ UHI_vis[j] = FromInt(5)

\* every feature's bounds in info_df have max # min
BoundsRegular == \A f \in FeatureSet : info_df[f].max # info_df[f].min

\* C4: for each model feature whose bounds have max # min and whose slider is
\* at 1.0, the adjusted value in sim_scaled equals the base value in sim_data,
\* for every entity; with all sliders at 1.0 (and no degenerate bounds) the
\* model input equals the base feature table
C4_RoundTrip ==
    /\ \A f \in FeatureSet :
           (info_df[f].max # info_df[f].min /\ mult[f] = FromInt(1)) =>
               \A i \in DOMAIN sim_scaled : sim_scaled[i].feat[f] = sim_data[i].feat[f]
    /\ (BoundsRegular /\ \A f \in FeatureSet : mult[f] = FromInt(1)) =>
           ModelInput(sim_scaled) = ModelInput(sim_data)

\* one slider is away from 1.0 and has changed its feature, while a feature with
\* a non-zero minimum whose slider is at 1.0 is as in the base table
C4_Witness ==
    /\ slider_moved
    /\ BoundsRegular
    /\ sim_scaled # <<>>
    /\ \E f, g \in FeatureSet :
           /\ mult[f] # FromInt(1)
           /\ \E i \in DOMAIN sim_scaled : sim_scaled[i].feat[f] # sim_data[i].feat[f]
           /\ mult[g] = FromInt(1)
           /\ info_df[g].min # FromInt(0)
           /\ \A i \in DOMAIN sim_scaled : sim_scaled[i].feat[g] = sim_data[i].feat[g]

\* C5 as stated: whatever the bounds in info_df (max = min included) and
\* whatever the sliders, every adjusted feature value passed to model.predict is
\* a finite number
C5_FiniteModelInput ==
    \A i \in DOMAIN sim_scaled : \A f \in FeatureSet : IsFinite(sim_scaled[i].feat[f])

\* the barangay names of a table, as sim_data would show them
Keys(table) == {RenameBarangay(table[i].barangay) : i \in DOMAIN table}

\* C6 as stated: every barangay key of the geometry table and of the feature
\* table is in sim_data, or the run reports the join failure
C6_JoinSurfaced ==
    \/ status = "JoinError"
    \/ /\ Keys(cdo_gdf) \subseteq Keys(sim_data)
       /\ Keys(features_df) \subseteq Keys(sim_data)

\* C7 as stated, for what is shown: the colour bin of every entity and the
\* hottest and coolest entity are what the unrounded model output gives (a raw
\* prediction just below a bin edge is binned below that edge)
C7_RoundingCosmetic ==
    status = "ok" =>
        /\ \A i \in Entities : fillColor[i] = get_color(clip(raw[i], vmin, vmax))
        /\ metrics.hottest_barangay = sim_data[idxmax(raw)].barangay
        /\ metrics.coolest_barangay = sim_data[idxmin(raw)].barangay

\* the legend's colour at a blend is exactly the colour c
LegendIs(blend, c) ==
    \/ blend.lo = c /\ (blend.hi = c \/ blend.p = FromInt(0))
    \/ blend.hi = c /\ blend.p = FromInt(1)

\* C8 as stated: the table cell of a value and the legend at that value show
\* the colour get_color gives the value, as the map polygon does
C8_OneColorScale ==
    /\ \A r \in DOMAIN display_df :
           styled_table[r].background_color = get_color(TableValue(r))
    /\ \A i \in DOMAIN UHI_vis : LegendIs(colormap(UHI_vis[i]), fillColor[i])

\* C9: after any sequence of slider changes the cached tables are as first
\* loaded, the adjusted features, UHI_index, UHI_vis and the colours are what a
\* fresh run on the first-loaded tables gives for the current sliders, and with
\* the sliders back at the first setting the first output is reproduced
C9_HistoryIndependence ==
    /\ cdo_gdf = session0.cdo_gdf
    /\ features_df = session0.features_df
    /\ info_df = session0.info_df
    /\ \E sd \in {MergeFeatures(session0.cdo_gdf, session0.features_df)} :
       \E ss \in {ApplyMultipliers(sd, session0.info_df, mult)} :
       \E res \in {predict(model, ModelInput(ss))} :
           /\ sim_scaled = ss
           /\ status = RunStatus(res)
           /\ res.ok =>
                  \E idx \in {[i \in DOMAIN res.out |-> round3[res.out[i]]]} :
                  \E vis \in {[i \in DOMAIN idx |-> clip(idx[i], vmin, vmax)]} :
                      /\ UHI_index = idx
                      /\ UHI_vis = vis
                      /\ fillColor = [i \in DOMAIN vis |-> get_color(vis[i])]
    /\ mult = AllDefault =>
           [sim_scaled |-> sim_scaled, UHI_index |-> UHI_index, UHI_vis |-> UHI_vis,
            fillColor |-> fillColor] = session0.out

\* the sliders are back at 1.0 after a change, and the run went through
C9_Witness ==
    /\ slider_moved
    /\ mult = AllDefault
    /\ status = "ok"
    /\ UHI_index # <<>>

\* C10: for every entity the map's fill colour (get_color of the clipped
\* UHI_vis) equals the colour of its table cell (get_color of the unclipped
\* UHI_index as the table shows it), values below 0 and above 5 included
C10_MapTableAgree ==
    /\ \A i \in Entities : get_color(clip(UHI_index[i], 0, 5)) = get_color(UHI_index[i])
    /\ \A i \in DOMAIN fillColor : \A r \in DOMAIN display_df :
           display_df[r].Barangay = sim_data[i].barangay =>
               styled_table[r].background_color = fillColor[i]
    /\ Len(display_df) = Len(fillColor)

\* one entity is predicted below 0, the other above 5, and both are in the table
C10_Witness ==
    /\ status = "ok"
    /\ \E i, j \in Entities :
           /\ FLt[UHI_index[i], FromInt(0)]
           /\ FLt[FromInt(5), UHI_index[j]]
           /\ \E r, q \in DOMAIN display_df :
                  /\ display_df[r].Barangay = sim_data[i].barangay
                  /\ styled_table[r].background_color = colors[1]
                  /\ display_df[q].Barangay = sim_data[j].barangay
                  /\ styled_table[q].background_color = colors[8]

====
